---------------------------- MODULE Spec2Model ----------------------------
(***************************************************************************)
(* Model of stenographer's phonetic tokenizer                               *)
(* (src/src/stenographer/models/tokenizers.py).                             *)
(*                                                                          *)
(* A Python str is a sequence of characters; a character is a one-element   *)
(* atom written as a TLA+ string.  Code points outside ASCII are written    *)
(* by their code point name: "U2019" is the right single quotation mark,    *)
(* "U00E9" is e-acute, "U0259" schwa, "U025B" open e, "U0281" small capital *)
(* inverted R, "U0153" the oe ligature.  A Python list is a sequence, a     *)
(* Python dict a sequence of <<key, value>> pairs in insertion order (the   *)
(* order dict.items() iterates in).  Positions are 1-based here where the   *)
(* code's are 0-based.                                                      *)
(***************************************************************************)
EXTENDS Integers, Sequences, FiniteSets, TLC

VARIABLES
    mode,     \* which entry point the run exercises
    docs,     \* encode's argument: the batch of documents
    abbr,     \* _Abbreviation.abbr_dict
    expr,     \* _ExprPronunciation.ipa
    wdict,    \* _WordPronunciation.ipa
    pc,       \* position in the running method
    x,        \* the local variable x of the running method
    remove_dash, \* _Num2Text.remove_dash
    resolved, \* what expr_transform returned to encode
    x_cpy,    \* encode's x_cpy
    r_dict,   \* encode's r_dict
    out,      \* the returned value
    err       \* the exception raised, "none" when none

vars == <<mode, docs, abbr, expr, wdict, remove_dash, pc, x, resolved,
          x_cpy, r_dict, out, err>>

---------------------------------------------------------------------------
(* Characters *)

\* _NUMBERS
NUMBERS == {"0", "1", "2", "3", "4", "5", "6", "7", "8", "9"}

\* _LETTERS
LETTERS == {"a", "b", "c", "d", "e", "f", "g", "h", "i", "j", "k", "l", "m",
            "n", "o", "p", "q", "r", "s", "t", "u", "v", "w", "x", "y", "z"}

\* Upper-case letters that str.lower() folds.
UPPER == {"A", "B", "T"}

\* Alphabetic code points outside a-z: matched by the regex class \w, but
\* members of neither _NUMBERS nor _LETTERS.
OTHERALPHA == {"U00E9", "U0259", "U025B", "U0281", "U0153"}

\* Characters str.split() and the regex class \s treat as whitespace.
WHITESPACE == {" "}

\* The regex class \w.
WORDCHARS == NUMBERS \cup LETTERS \cup UPPER \cup OTHERALPHA

\* str.lower() on one character.
LowerChar(c) ==
    CASE c = "A" -> "a"
      [] c = "B" -> "b"
      [] c = "T" -> "t"
      [] OTHER -> c

---------------------------------------------------------------------------
(* Python built-ins on strings and lists *)

\* sorted() of a finite set of integers.
RECURSIVE SortedSeq(_)
SortedSeq(S) ==
    IF S = {} THEN <<>>
    ELSE LET m == CHOOSE a \in S : \A b \in S : a <= b
         IN <<m>> \o SortedSeq(S \ {m})

\* sorted() of a list of integers (duplicates kept).
SortedList(l) == SortSeq(l, LAMBDA a, b : a < b)

\* Concatenation of the sequences of a sequence.
RECURSIVE Flatten(_)
Flatten(ss) ==
    IF ss = <<>> THEN <<>> ELSE Head(ss) \o Flatten(Tail(ss))

\* The maximal runs of equal class in cl, runs of class "s" left out, as
\* <<first, last>> pairs in left-to-right order.
ClassRuns(cl) ==
    LET starts == {i \in DOMAIN cl :
                      cl[i] # "s" /\ (i = 1 \/ cl[i - 1] # cl[i])}
        last(i) == CHOOSE j \in i..Len(cl) :
                      /\ \A k \in i..j : cl[k] = cl[i]
                      /\ (j = Len(cl) \/ cl[j + 1] # cl[i])
        st == SortedSeq(starts)
    IN [k \in 1..Len(st) |-> <<st[k], last(st[k])>>]

\* The pieces of s that the runs delimit.
Pieces(s, runs) == [k \in 1..Len(runs) |-> SubSeq(s, runs[k][1], runs[k][2])]

\* str.split(): the maximal runs of non-whitespace characters.
StrSplit(s) ==
    Pieces(s, ClassRuns([i \in DOMAIN s |->
                            IF s[i] \in WHITESPACE THEN "s" ELSE "t"]))

\* ' '.join(l)
RECURSIVE StrJoin(_)
StrJoin(l) ==
    IF l = <<>> THEN <<>>
    ELSE IF Len(l) = 1 THEN l[1]
    ELSE l[1] \o <<" ">> \o StrJoin(Tail(l))

\* str.lower()
StrLower(s) == [i \in DOMAIN s |-> LowerChar(s[i])]

\* Whether w occurs in s starting at position i.
MatchAt(s, w, i) ==
    /\ i >= 1
    /\ i + Len(w) - 1 <= Len(s)
    /\ \A k \in 1..Len(w) : s[i + k - 1] = w[k]

\* w in s
StrContains(s, w) == \E i \in 1..(Len(s) + 1) : MatchAt(s, w, i)

\* The start positions re.finditer(re.escape(w), s) yields from position i
\* on: leftmost non-overlapping matches (w is not empty).
RECURSIVE FindIter(_, _, _)
FindIter(s, w, i) ==
    IF i + Len(w) - 1 > Len(s) THEN <<>>
    ELSE IF MatchAt(s, w, i) THEN <<i>> \o FindIter(s, w, i + Len(w))
    ELSE FindIter(s, w, i + 1)

\* dict lookup in a list of <<key, value>> pairs with unique keys.
HasKey(d, k) == \E i \in DOMAIN d : d[i][1] = k
Lookup(d, k) == d[CHOOSE i \in DOMAIN d : d[i][1] = k][2]

---------------------------------------------------------------------------
(* _Abbreviation *)

\* _Abbreviation.transform's res with the entry of a word that is no key
\* left as the empty string it was initialised to.
AbbrResBlankMiss(d, s) ==
    LET x_split == StrSplit(s)
    IN [idx \in DOMAIN x_split |->
           IF HasKey(d, x_split[idx]) THEN Lookup(d, x_split[idx])
           ELSE <<>>]

\* The list res that _Abbreviation.transform builds for the string s under
\* abbr_dict d: one entry per word of s.split().
AbbrRes(d, s) ==
    LET x_split == StrSplit(s)
    IN [idx \in DOMAIN x_split |->
           IF HasKey(d, x_split[idx]) THEN Lookup(d, x_split[idx])
           ELSE x_split[idx]]

\* _Abbreviation.transform
AbbrTransform(d, s) == StrJoin(AbbrRes(d, s))

---------------------------------------------------------------------------
(* _PuncTokenization *)

\* nltk.wordpunct_tokenize: all matches of the regular expression
\* \w+|[^\w\s]+, that is the maximal runs of word characters and the
\* maximal runs of characters that are neither word characters nor
\* whitespace.
PuncTransform(s) ==
    Pieces(s, ClassRuns([i \in DOMAIN s |->
                            IF s[i] \in WHITESPACE THEN "s"
                            ELSE IF s[i] \in WORDCHARS THEN "w"
                            ELSE "p"]))

---------------------------------------------------------------------------
(* _NumberTokenizer *)

\* _NumberTokenizer._filters: re.split on the characters of pattern, empty
\* pieces filtered out.
Filters(string, pattern) ==
    Pieces(string, ClassRuns([i \in DOMAIN string |->
                                IF string[i] \in pattern THEN "s" ELSE "t"]))

\* _NumberTokenizer._pos_dict: out is the sorted list of the start positions
\* appended for every w of words (one entry per match, per w), wdict maps a
\* position to the last w written there.
PosDict(words, string) ==
    LET at(k) == FindIter(string, words[k], 1)
        indexes == Flatten([k \in DOMAIN words |-> at(k)])
        inds == {indexes[j] : j \in DOMAIN indexes}
        lastw(ind) == CHOOSE k \in DOMAIN words :
                         /\ \E j \in DOMAIN at(k) : at(k)[j] = ind
                         /\ \A k2 \in DOMAIN words :
                               (\E j \in DOMAIN at(k2) : at(k2)[j] = ind)
                                  => k2 <= k
    IN [out |-> SortedList(indexes),
        wdict |-> [ind \in inds |-> words[lastw(ind)]]]

\* The part of _NumberTokenizer.transform that handles a word holding both a
\* number and a letter: pos_res and wrd_res.
NumTokSplit(word) ==
    LET numbers == Filters(word, NUMBERS)
        letters == Filters(word, LETTERS)
        n == PosDict(numbers, word)
        w == PosDict(letters, word)
    IN [pos_res |-> SortedList(n.out \o w.out),
        wrd_res |-> [pos \in (DOMAIN n.wdict) \cup (DOMAIN w.wdict) |->
                        IF pos \in DOMAIN w.wdict THEN w.wdict[pos]
                        ELSE n.wdict[pos]]]

\* Whether _NumberTokenizer.transform takes the splitting branch for word.
NumTokMixed(word) ==
    /\ \E i \in DOMAIN word : word[i] \in NUMBERS
    /\ \E i \in DOMAIN word : word[i] \in LETTERS

\* What _NumberTokenizer.transform appends to out for one word.
NumTokWord(word) ==
    IF ~NumTokMixed(word) THEN <<word>>
    ELSE LET r == NumTokSplit(word)
         IN [k \in DOMAIN r.pos_res |-> r.wrd_res[r.pos_res[k]]]

\* _NumberTokenizer.transform raises KeyError when wrd_res has no entry for
\* a position of pos_res.
NumTokRaises(ws) ==
    \E j \in DOMAIN ws :
        /\ NumTokMixed(ws[j])
        /\ LET r == NumTokSplit(ws[j])
           IN \E k \in DOMAIN r.pos_res : r.pos_res[k] \notin DOMAIN r.wrd_res

\* _NumberTokenizer.transform
NumTokTransform(ws) == Flatten([j \in DOMAIN ws |-> NumTokWord(ws[j])])

---------------------------------------------------------------------------
(* num2words(value, lang='fr') *)

\* The French words of 0..16.
FrLow(n) ==
    CASE n = 0 -> <<"z", "U00E9", "r", "o">>
      [] n = 1 -> <<"u", "n">>
      [] n = 2 -> <<"d", "e", "u", "x">>
      [] n = 3 -> <<"t", "r", "o", "i", "s">>
      [] n = 4 -> <<"q", "u", "a", "t", "r", "e">>
      [] n = 5 -> <<"c", "i", "n", "q">>
      [] n = 6 -> <<"s", "i", "x">>
      [] n = 7 -> <<"s", "e", "p", "t">>
      [] n = 8 -> <<"h", "u", "i", "t">>
      [] n = 9 -> <<"n", "e", "u", "f">>
      [] n = 10 -> <<"d", "i", "x">>
      [] n = 11 -> <<"o", "n", "z", "e">>
      [] n = 12 -> <<"d", "o", "u", "z", "e">>
      [] n = 13 -> <<"t", "r", "e", "i", "z", "e">>
      [] n = 14 -> <<"q", "u", "a", "t", "o", "r", "z", "e">>
      [] n = 15 -> <<"q", "u", "i", "n", "z", "e">>
      [] n = 16 -> <<"s", "e", "i", "z", "e">>

\* The French words of 20, 30, 40, 50, 60.
FrTens(t) ==
    CASE t = 2 -> <<"v", "i", "n", "g", "t">>
      [] t = 3 -> <<"t", "r", "e", "n", "t", "e">>
      [] t = 4 -> <<"q", "u", "a", "r", "a", "n", "t", "e">>
      [] t = 5 -> <<"c", "i", "n", "q", "u", "a", "n", "t", "e">>
      [] t = 6 -> <<"s", "o", "i", "x", "a", "n", "t", "e">>

FR_DIX == <<"d", "i", "x">>
FR_QV == <<"q", "u", "a", "t", "r", "e", "-", "v", "i", "n", "g", "t">>
FR_CENT == <<"c", "e", "n", "t">>
FR_MILLE == <<"m", "i", "l", "l", "e">>
FR_ET == <<" ", "e", "t", " ">>
FR_VIRGULE == <<"v", "i", "r", "g", "u", "l", "e">>

\* 0..19
FrBelow20(n) == IF n <= 16 THEN FrLow(n) ELSE FR_DIX \o <<"-">> \o FrLow(n - 10)

\* 0..99; plural is whether "quatre-vingts" keeps its final s.
FrBelow100(n, plural) ==
    LET t == n \div 10
        u == n % 10
    IN IF n < 20 THEN FrBelow20(n)
       ELSE IF t \in 2..6 THEN
           IF u = 0 THEN FrTens(t)
           ELSE IF u = 1 THEN FrTens(t) \o FR_ET \o FrLow(1)
           ELSE FrTens(t) \o <<"-">> \o FrLow(u)
       ELSE IF t = 7 THEN
           IF u = 1 THEN FrTens(6) \o FR_ET \o FrLow(11)
           ELSE FrTens(6) \o <<"-">> \o FrBelow20(10 + u)
       ELSE IF t = 8 THEN
           IF u = 0 THEN FR_QV \o (IF plural THEN <<"s">> ELSE <<>>)
           ELSE FR_QV \o <<"-">> \o FrLow(u)
       ELSE FR_QV \o <<"-">> \o FrBelow20(10 + u)

\* 0..999; plural is whether a round "cents" or "quatre-vingts" keeps its s.
FrBelow1000(n, plural) ==
    LET h == n \div 100
        r == n % 100
        head == IF h = 1 THEN FR_CENT ELSE FrLow(h) \o <<" ">> \o FR_CENT
    IN IF h = 0 THEN FrBelow100(r, plural)
       ELSE IF r = 0 THEN head \o (IF h > 1 /\ plural THEN <<"s">> ELSE <<>>)
       ELSE head \o <<" ">> \o FrBelow100(r, plural)

\* num2words(n, lang='fr') for an int n in 0..999999.
Num2Words(n) ==
    LET k == n \div 1000
        r == n % 1000
        head == IF k = 1 THEN FR_MILLE
                ELSE FrBelow1000(k, FALSE) \o <<" ">> \o FR_MILLE
    IN IF k = 0 THEN FrBelow1000(r, TRUE)
       ELSE IF r = 0 THEN head
       ELSE head \o <<" ">> \o FrBelow1000(r, TRUE)

\* num2words(v, lang='fr') for a float: the integer part, "virgule", then
\* the decimals of repr(v) one by one.
Num2WordsFloat(ip, decimals) ==
    Num2Words(ip) \o <<" ">> \o FR_VIRGULE \o <<" ">>
       \o StrJoin([i \in DOMAIN decimals |-> FrLow(decimals[i])])

---------------------------------------------------------------------------
(* _Num2Text *)

\* The value of one decimal digit.
DigitVal(c) ==
    CASE c = "0" -> 0 [] c = "1" -> 1 [] c = "2" -> 2 [] c = "3" -> 3
      [] c = "4" -> 4 [] c = "5" -> 5 [] c = "6" -> 6 [] c = "7" -> 7
      [] c = "8" -> 8 [] c = "9" -> 9

\* The value of a string of decimal digits (0 for the empty string).
RECURSIVE DigitsVal(_)
DigitsVal(s) ==
    IF s = <<>> THEN 0
    ELSE 10 * DigitsVal(SubSeq(s, 1, Len(s) - 1)) + DigitVal(s[Len(s)])

AllDigits(s) == \A i \in DOMAIN s : s[i] \in NUMBERS

\* int(num) succeeds on a non-empty string of decimal digits.
IntParses(num) == num # <<>> /\ AllDigits(num)

\* float(num) succeeds on digits with one "." among them.
FloatParses(num) ==
    /\ Cardinality({i \in DOMAIN num : num[i] = "."}) = 1
    /\ \E i \in DOMAIN num : num[i] \in NUMBERS
    /\ \A i \in DOMAIN num : num[i] \in NUMBERS \cup {"."}

\* num.replace(',', '.')
CommaToDot(num) == [i \in DOMAIN num |-> IF num[i] = "," THEN "." ELSE num[i]]

\* The decimals repr() shows for the fractional digits fr: trailing zeros
\* dropped, one digit at least.
RECURSIVE ReprDecimals(_)
ReprDecimals(fr) ==
    IF fr = <<>> THEN <<0>>
    ELSE IF Len(fr) > 1 /\ fr[Len(fr)] = "0"
         THEN ReprDecimals(SubSeq(fr, 1, Len(fr) - 1))
    ELSE [i \in DOMAIN fr |-> DigitVal(fr[i])]

\* to_text(float(num)) for a num that FloatParses accepts.
FloatToText(num) ==
    LET dot == CHOOSE i \in DOMAIN num : num[i] = "."
    IN Num2WordsFloat(DigitsVal(SubSeq(num, 1, dot - 1)),
                      ReprDecimals(SubSeq(num, dot + 1, Len(num))))

\* trans.replace('-', ' ')
DashToSpace(t) == [i \in DOMAIN t |-> IF t[i] = "-" THEN " " ELSE t[i]]

\* Whether _Num2Text.transform rewrites the token: all of its characters
\* are in self.numbers.
NumberFound(num) == \A i \in DOMAIN num : num[i] \in NUMBERS

\* The string _Num2Text.transform parses: the token with ',' made '.'.
Num2TextParsed(num) ==
    IF \E i \in DOMAIN num : num[i] = "," THEN CommaToDot(num) ELSE num

\* What _Num2Text.transform writes at the place of a token it rewrites.
Num2TextTrans(num, rd) ==
    LET n1 == Num2TextParsed(num)
        trans == IF \E i \in DOMAIN n1 : n1[i] = "." THEN FloatToText(n1)
                 ELSE Num2Words(DigitsVal(n1))
    IN IF rd THEN DashToSpace(trans) ELSE trans

\* _Num2Text.transform raises ValueError when int() or float() rejects a
\* token it set out to rewrite.
Num2TextRaises(ts) ==
    \E ind \in DOMAIN ts :
        /\ NumberFound(ts[ind])
        /\ LET n1 == Num2TextParsed(ts[ind])
           IN IF \E i \in DOMAIN n1 : n1[i] = "." THEN ~FloatParses(n1)
              ELSE ~IntParses(n1)

\* _Num2Text.transform with remove_dash rd.  For an empty list the code
\* returns the empty str, which like the empty list is the empty sequence.
Num2TextTransform(ts, rd) ==
    IF ts = <<>> THEN <<>>
    ELSE [ind \in DOMAIN ts |->
             IF NumberFound(ts[ind]) THEN Num2TextTrans(ts[ind], rd)
             ELSE ts[ind]]

---------------------------------------------------------------------------
(* _ExprPronunciation *)

\* The string x_string is carried with one mark per character: whether the
\* character was written by a replace of this transform.  The marks are
\* bookkeeping; the code's values are the characters, Plain(ms).
Plain(ms) == [i \in DOMAIN ms |-> ms[i][1]]
Marked(s, m) == [i \in DOMAIN s |-> <<s[i], m>>]

\* x_string.replace(old, new) from position i on: every leftmost
\* non-overlapping occurrence of old replaced by new (old is not empty).
RECURSIVE StrReplaceFrom(_, _, _, _)
StrReplaceFrom(ms, old, new, i) ==
    IF i > Len(ms) THEN <<>>
    ELSE IF MatchAt(Plain(ms), old, i)
         THEN Marked(new, TRUE) \o StrReplaceFrom(ms, old, new, i + Len(old))
    ELSE <<ms[i]>> \o StrReplaceFrom(ms, old, new, i + 1)

\* The loop of _ExprPronunciation.transform over ipa.items() from item k on:
\* the final x_string and pron_found.
RECURSIVE ExprLoop(_, _, _, _)
ExprLoop(ipa, k, ms, pron_found) ==
    IF k > Len(ipa) THEN [x_string |-> ms, pron_found |-> pron_found]
    ELSE IF ~StrContains(Plain(ms), ipa[k][1])
         THEN ExprLoop(ipa, k + 1, ms, pron_found)
    ELSE ExprLoop(ipa, k + 1, StrReplaceFrom(ms, ipa[k][1], ipa[k][2], 1),
                  Append(pron_found, ipa[k][2]))

\* _ExprPronunciation.transform: out and pron_found, and for every token of
\* out whether all (written) or some (touched) of its characters were
\* written by a replace.
ExprTransform(ipa, ts) ==
    LET r == ExprLoop(ipa, 1, Marked(StrJoin(ts), FALSE), <<>>)
        s == Plain(r.x_string)
        runs == ClassRuns([i \in DOMAIN s |->
                              IF s[i] \in WHITESPACE THEN "s" ELSE "t"])
        toks == Pieces(r.x_string, runs)
    IN [out |-> [k \in DOMAIN toks |-> Plain(toks[k])],
        pron_found |-> r.pron_found,
        written |-> [k \in DOMAIN toks |->
                        \A i \in DOMAIN toks[k] : toks[k][i][2]],
        touched |-> [k \in DOMAIN toks |->
                        \E i \in DOMAIN toks[k] : toks[k][i][2]]]

---------------------------------------------------------------------------
(* _WordPronunciation *)

\* self.ipa.get(word, word)
DictGet(d, word) == IF HasKey(d, word) THEN Lookup(d, word) ELSE word

\* _WordPronunciation.transform with the empty token skipped instead of
\* appended.
WordTransformSkipBlank(ipa, ts) ==
    LET keep == SortedSeq({i \in DOMAIN ts : ts[i] # <<>>})
    IN [k \in DOMAIN keep |-> DictGet(ipa, ts[keep[k]])]

\* _WordPronunciation.transform
WordTransform(ipa, ts) ==
    [i \in DOMAIN ts |-> IF ts[i] = <<>> THEN ts[i] ELSE DictGet(ipa, ts[i])]

---------------------------------------------------------------------------
(* PhoneticTokenizer *)

\* PhoneticTokenizer._split
SplitSeq(seq) == Flatten([i \in DOMAIN seq |-> StrSplit(seq[i])])

\* w in words, for a list words
InList(w, words) == \E j \in DOMAIN words : words[j] = w

\* PhoneticTokenizer._set_to_blank: res, and ret as the function from each
\* blanked value to the position written for it last.
SetToBlank(seq, words) ==
    LET hit == {i \in DOMAIN seq : InList(seq[i], words)}
    IN [res |-> [i \in DOMAIN seq |-> IF i \in hit THEN <<>> ELSE seq[i]],
        ret |-> [w \in {seq[i] : i \in hit} |->
                    CHOOSE i \in hit :
                       seq[i] = w /\ \A j \in hit : seq[j] = w => j <= i]]

\* PhoneticTokenizer._fill raises IndexError when a recorded position is
\* not a position of seq.
FillRaises(seq, word) == \E w \in DOMAIN word : word[w] \notin DOMAIN seq

\* PhoneticTokenizer._fill
Fill(seq, word) ==
    [i \in DOMAIN seq |->
        IF \E w \in DOMAIN word : word[w] = i
        THEN CHOOSE w \in DOMAIN word : word[w] = i
        ELSE seq[i]]

---------------------------------------------------------------------------
(* _Transformer.__call__: transform applied to every element of the input  *)
(* list, the results appended in order; one definition per transformer.    *)

\* __call__ with each result inserted at the front of out.
WordCallReversed(ipa, inp) ==
    [i \in DOMAIN inp |-> WordTransform(ipa, inp[Len(inp) + 1 - i])]

AbbrCall(d, inp) == [i \in DOMAIN inp |-> AbbrTransform(d, inp[i])]
PuncCall(inp) == [i \in DOMAIN inp |-> PuncTransform(inp[i])]
NumTokCall(inp) == [i \in DOMAIN inp |-> NumTokTransform(inp[i])]
Num2TextCall(inp, rd) == [i \in DOMAIN inp |-> Num2TextTransform(inp[i], rd)]
ExprCall(ipa, inp) == [i \in DOMAIN inp |-> ExprTransform(ipa, inp[i])]
WordCall(ipa, inp) == [i \in DOMAIN inp |-> WordTransform(ipa, inp[i])]

\* zip(x_cpy, r_dict) in encode's last comprehension: as many pairs as the
\* shorter list has.
ZipLen(a, b) == IF Len(a) <= Len(b) THEN Len(a) ELSE Len(b)

---------------------------------------------------------------------------
(* PhoneticTokenizer.encode, one action per statement *)

\* x = [s.lower() for s in x]
Lower ==
    /\ mode = "encode" /\ pc = "lower"
    /\ x' = [i \in DOMAIN x |-> StrLower(x[i])]
    /\ pc' = "abbr"
    /\ UNCHANGED <<mode, docs, abbr, expr, wdict, remove_dash, resolved,
                   x_cpy, r_dict, out, err>>

\* x = self.abbr_transform(x)
Abbr ==
    /\ mode = "encode" /\ pc = "abbr"
    /\ x' = AbbrCall(abbr, x)
    /\ pc' = "punc"
    /\ UNCHANGED <<mode, docs, abbr, expr, wdict, remove_dash, resolved,
                   x_cpy, r_dict, out, err>>

\* x = self.punc_tokenizer(x)
Punc ==
    /\ mode = "encode" /\ pc = "punc"
    /\ x' = PuncCall(x)
    /\ pc' = "num_tokenizer"
    /\ UNCHANGED <<mode, docs, abbr, expr, wdict, remove_dash, resolved,
                   x_cpy, r_dict, out, err>>

\* x = self.num_tokenizer(x)
NumTok ==
    /\ mode = "encode" /\ pc = "num_tokenizer"
    /\ IF \E i \in DOMAIN x : NumTokRaises(x[i])
       THEN pc' = "raised" /\ err' = "KeyError" /\ x' = x
       ELSE pc' = "num_transcript" /\ err' = err /\ x' = NumTokCall(x)
    /\ UNCHANGED <<mode, docs, abbr, expr, wdict, remove_dash, resolved,
                   x_cpy, r_dict, out>>

\* x = self.num_transcript(x)
NumTranscript ==
    /\ mode = "encode" /\ pc = "num_transcript"
    /\ IF \E i \in DOMAIN x : Num2TextRaises(x[i])
       THEN pc' = "raised" /\ err' = "ValueError" /\ x' = x
       ELSE pc' = "split" /\ err' = err /\ x' = Num2TextCall(x, remove_dash)
    /\ UNCHANGED <<mode, docs, abbr, expr, wdict, remove_dash, resolved,
                   x_cpy, r_dict, out>>

\* x = [self._split(s) for s in x]
Split ==
    /\ mode = "encode" /\ pc = "split"
    /\ x' = [i \in DOMAIN x |-> SplitSeq(x[i])]
    /\ pc' = "expr"
    /\ UNCHANGED <<mode, docs, abbr, expr, wdict, remove_dash, resolved,
                   x_cpy, r_dict, out, err>>

\* x = self.expr_transform(x); x_cpy = []; r_dict = []
Expr ==
    /\ mode = "encode" /\ pc = "expr"
    /\ x' = ExprCall(expr, x)
    /\ resolved' = x'
    /\ x_cpy' = <<>>
    /\ r_dict' = <<>>
    /\ pc' = "mask"
    /\ UNCHANGED <<mode, docs, abbr, expr, wdict, remove_dash, out, err>>

\* One iteration of: for s, pho in x: s_, r_ = self._set_to_blank(s, pho);
\* x_cpy.append(s_); r_dict.append(r_)
Mask ==
    /\ mode = "encode" /\ pc = "mask"
    /\ Len(x_cpy) < Len(x)
    /\ LET e == x[Len(x_cpy) + 1]
           m == SetToBlank(e.out, e.pron_found)
       IN /\ x_cpy' = Append(x_cpy, m.res)
          /\ r_dict' = Append(r_dict, m.ret)
    /\ UNCHANGED <<mode, docs, abbr, expr, wdict, remove_dash, pc, x,
                   resolved, out, err>>

\* x_cpy = self.word_transform(x_cpy), once the loop is over
WordMap ==
    /\ mode = "encode" /\ pc = "mask"
    /\ Len(x_cpy) = Len(x)
    /\ x_cpy' = WordCall(wdict, x_cpy)
    /\ pc' = "fill"
    /\ UNCHANGED <<mode, docs, abbr, expr, wdict, remove_dash, x, resolved,
                   r_dict, out, err>>

\* x = [self._fill(s, r_) for s, r_ in zip(x_cpy, r_dict)]; return x
Restore ==
    /\ mode = "encode" /\ pc = "fill"
    /\ IF \E i \in 1..ZipLen(x_cpy, r_dict) : FillRaises(x_cpy[i], r_dict[i])
       THEN pc' = "raised" /\ err' = "IndexError" /\ x' = x /\ out' = out
       ELSE /\ x' = [i \in 1..ZipLen(x_cpy, r_dict) |->
                        Fill(x_cpy[i], r_dict[i])]
            /\ out' = x'
            /\ pc' = "done"
            /\ err' = err
    /\ UNCHANGED <<mode, docs, abbr, expr, wdict, remove_dash, resolved,
                   x_cpy, r_dict>>

Next ==
    \/ Lower \/ Abbr \/ Punc \/ NumTok \/ NumTranscript \/ Split \/ Expr
    \/ Mask \/ WordMap \/ Restore


---------------------------------------------------------------------------
(* Inputs *)

\* Bounds of the inputs: items of a list (documents of a batch, tokens of a
\* token sequence) and characters of a list in total.
MaxDocs == 2
MaxChars == 3

\* The strings over the alphabet A of lo to hi characters.
Strs(A, lo, hi) == UNION {[1..n -> A] : n \in lo..hi}

\* The lists of exactly k strings over A, each of at least lo characters,
\* of at most c characters in total.
RECURSIVE ListsOf(_, _, _, _)
ListsOf(A, k, c, lo) ==
    IF k = 0 THEN {<<>>}
    ELSE UNION {{<<s>> \o l : l \in ListsOf(A, k - 1, c - Len(s), lo)} :
                   s \in Strs(A, lo, c)}

\* The lists of at most n such strings.
Lists(A, n, c, lo) == UNION {ListsOf(A, k, c, lo) : k \in 0..n}

\* The characters of the enumerated documents: a letter, an upper-case
\* letter, a digit, whitespace, a punctuation mark.
DocChars == {"a", "B", "1", " ", "'"}

\* Dictionaries as json.load returns them for three small resource files.
CfgA ==
    [abbr |-> << <<<<"b">>, <<"a", " ", "a">>>> >>,
     expr |-> << <<<<"a", " ", "a">>, <<"p">>>> >>,
     wdict |-> << <<<<"a">>, <<"q">>>>,
                  <<<<"u", "n">>, <<"U0153">>>> >>]
CfgB ==
    [abbr |-> <<>>,
     expr |-> << <<<<"a", " ", "b">>, <<"x", " ", "y">>>> >>,
     wdict |-> << <<<<"x">>, <<"q">>>>,
                  <<<<"b">>, <<"r">>>> >>]
CfgC ==
    [abbr |-> << <<<<"b">>, <<"a", " ", "a">>>> >>,
     expr |-> << <<<<"a", " ", "a">>, <<"a">>>> >>,
     wdict |-> << <<<<"a">>, <<"q">>>> >>]

\* The dictionaries and the document of the end-to-end scenario.
PRON_ESPACE == <<"d", "U0259", ".", "l", "U025B", "s", ".", "p", "a", "s">>
PRON_TERMINATOR == <<"t", "U025B", "U0281", ".", "m", "i", ".", "n", "a", ".", "t", "U0153", "U0281">>
CfgScenario ==
    [abbr |-> <<>>,
     expr |-> << <<<<"d", "e", " ", "l", "U2019", "e", "s", "p", "a", "c", "e">>, PRON_ESPACE>> >>,
     wdict |-> << <<<<"t", "e", "r", "m", "i", "n", "a", "t", "o", "r">>, PRON_TERMINATOR>> >>]
DocScenario ==
    <<"2", "0", "0", "1", " ", "t", "e", "r", "m", "i", "n", "a", "t", "o", "r", " ", "d", "e", " ", "l", "U2019", "e", "s", "p", "a", "c", "e">>

---------------------------------------------------------------------------
(* encode on a batch *)

Init ==
    /\ mode = "encode"
    /\ \E cfg \in {CfgA, CfgB, CfgC, CfgScenario} :
          /\ abbr = cfg.abbr /\ expr = cfg.expr /\ wdict = cfg.wdict
          /\ IF cfg = CfgScenario THEN docs = <<DocScenario>>
             ELSE docs \in Lists(DocChars, MaxDocs, MaxChars, 0)
    /\ remove_dash = FALSE
    /\ pc = "lower"
    /\ x = docs
    /\ resolved = <<>>
    /\ x_cpy = <<>>
    /\ r_dict = <<>>
    /\ out = <<>>
    /\ err = "none"

Spec == Init /\ [][Next]_vars


---------------------------------------------------------------------------
(* The transformers called on their own *)

\* What every run that calls one transformer starts from.
UnitInit ==
    /\ docs = <<>> /\ resolved = <<>> /\ x_cpy = <<>> /\ r_dict = <<>>
    /\ out = <<>> /\ err = "none" /\ pc = "start"

\* Token alphabets of the runs below.
SegChars == {"1", "2", "a", "-"}
NumChars == {"1", "7", ",", ".", "a"}
AbbrChars == {"a", "b", " "}
WordChars == {"a", "b"}

\* _NumberTokenizer.transform(x)
Segment ==
    /\ mode = "segment" /\ pc = "start"
    /\ IF NumTokRaises(x)
       THEN pc' = "raised" /\ err' = "KeyError" /\ out' = out
       ELSE pc' = "done" /\ err' = err /\ out' = NumTokTransform(x)
    /\ UNCHANGED <<mode, docs, abbr, expr, wdict, remove_dash, x, resolved,
                   x_cpy, r_dict>>

InitSeg ==
    /\ mode = "segment"
    /\ x \in Lists(SegChars, MaxDocs, MaxChars, 1)
    /\ abbr = <<>> /\ expr = <<>> /\ wdict = <<>> /\ remove_dash = FALSE
    /\ UnitInit

NextSeg == Segment

SpecSeg == InitSeg /\ [][NextSeg]_vars

\* _Num2Text.transform(x)
Spell ==
    /\ mode = "spell" /\ pc = "start"
    /\ IF Num2TextRaises(x)
       THEN pc' = "raised" /\ err' = "ValueError" /\ out' = out
       ELSE pc' = "done" /\ err' = err
            /\ out' = Num2TextTransform(x, remove_dash)
    /\ UNCHANGED <<mode, docs, abbr, expr, wdict, remove_dash, x, resolved,
                   x_cpy, r_dict>>

InitNum ==
    /\ mode = "spell"
    /\ x \in Lists(NumChars, MaxDocs, MaxChars, 1)
    /\ remove_dash \in BOOLEAN
    /\ abbr = <<>> /\ expr = <<>> /\ wdict = <<>>
    /\ UnitInit

NextNum == Spell

SpecNum == InitNum /\ [][NextNum]_vars

\* _Abbreviation.transform(x)
Expand ==
    /\ mode = "abbr" /\ pc = "start"
    /\ out' = AbbrTransform(abbr, x)
    /\ pc' = "done"
    /\ UNCHANGED <<mode, docs, abbr, expr, wdict, remove_dash, x, resolved,
                   x_cpy, r_dict, err>>

\* _WordPronunciation.transform(x)
WordMapOne ==
    /\ mode = "word" /\ pc = "start"
    /\ out' = WordTransform(wdict, x)
    /\ pc' = "done"
    /\ UNCHANGED <<mode, docs, abbr, expr, wdict, remove_dash, x, resolved,
                   x_cpy, r_dict, err>>

\* An abbreviation dictionary with a one-word and a two-word expansion.
AbbrDict ==
    << <<<<"a">>, <<"b">>>>,
       <<<<"b">>, <<"a", " ", "a">>>> >>

\* Word dictionaries: one has the empty string among its keys.
WordDict1 ==
    << <<<<>>, <<"z">>>>,
       <<<<"a">>, <<"q">>>> >>
WordDict2 ==
    << <<<<"b">>, <<"a">>>> >>

InitDict ==
    /\ \/ /\ mode = "abbr"
          /\ x \in Strs(AbbrChars, 0, MaxChars + 2)
          /\ abbr = AbbrDict /\ wdict = <<>>
       \/ /\ mode = "word"
          /\ x \in Lists(WordChars, MaxDocs, MaxChars, 0)
          /\ wdict \in {WordDict1, WordDict2} /\ abbr = <<>>
    /\ expr = <<>> /\ remove_dash = FALSE
    /\ UnitInit

NextDict == Expand \/ WordMapOne

SpecDict == InitDict /\ [][NextDict]_vars

\* _ExprPronunciation.transform(x)
Resolve ==
    /\ mode = "resolve" /\ pc = "start"
    /\ out' = ExprTransform(expr, x)
    /\ pc' = "done"
    /\ UNCHANGED <<mode, docs, abbr, expr, wdict, remove_dash, x, resolved,
                   x_cpy, r_dict, err>>

\* The entries of an expression dictionary in which one key is the start of
\* the other.
ExprEntries ==
    << <<<<"a">>, <<"x">>>>,
       <<<<"a", " ", "b">>, <<"y">>>> >>

\* The dictionaries that hold the entries of d, one per insertion order.
Orderings(d) ==
    {[i \in DOMAIN d |-> d[f[i]]] : f \in Permutations(DOMAIN d)}

InitExpr ==
    /\ mode = "resolve"
    /\ x \in Lists(WordChars, MaxDocs + 1, MaxChars + 1, 1)
    /\ expr \in Orderings(ExprEntries)
    /\ abbr = <<>> /\ wdict = <<>> /\ remove_dash = FALSE
    /\ UnitInit

NextExpr == Resolve

SpecExpr == InitExpr /\ [][NextExpr]_vars


---------------------------------------------------------------------------
(* encode on one document: the statements of encode applied to a batch of  *)
(* that document alone.                                                     *)
EncodeDoc(d) ==
    LET s1 == AbbrTransform(abbr, StrLower(d))
        t1 == Num2TextTransform(NumTokTransform(PuncTransform(s1)),
                                remove_dash)
        r == ExprTransform(expr, SplitSeq(t1))
        m == SetToBlank(r.out, r.pron_found)
    IN Fill(WordTransform(wdict, m.res), m.ret)

---------------------------------------------------------------------------
(* Claims *)

EncodeDone == mode = "encode" /\ pc = "done"

\* C1: every position that _set_to_blank blanked holds, in the sequence
\* encode returns, the pronunciation value it held before masking; no
\* blanked position is left blank or altered.
C1_MaskRestore ==
    EncodeDone =>
        \A i \in DOMAIN resolved :
            \A j \in DOMAIN resolved[i].out :
                InList(resolved[i].out[j], resolved[i].pron_found)
                    => /\ i \in DOMAIN out
                       /\ j \in DOMAIN out[i]
                       /\ out[i][j] = resolved[i].out[j]

\* C2: every position of the final sequence is either a token written by
\* the expression substitution, returned as written, or the word
\* dictionary's value (or the surface fallback) of a token the expression
\* substitution did not write; never both, never neither.
C2_ExactlyOne ==
    EncodeDone =>
        \A i \in DOMAIN out :
            \A j \in DOMAIN out[i] :
                LET r == resolved[i]
                IN /\ j \in DOMAIN r.out
                   /\ r.written[j] => out[i][j] = r.out[j]
                   /\ ~r.touched[j] => out[i][j] = DictGet(wdict, r.out[j])

\* C3: for the scenario's dictionaries and document, encode returns one
\* sequence: the spelled-out form of 2001 (as one token or as its words),
\* then the pronunciation of "terminator", then the single pronunciation
\* token of the expression.
C3_Scenario ==
    (/\ EncodeDone
     /\ docs = <<DocScenario>>
     /\ abbr = CfgScenario.abbr
     /\ expr = CfgScenario.expr
     /\ wdict = CfgScenario.wdict)
        => out \in {<<StrSplit(Num2Words(2001))
                        \o <<PRON_TERMINATOR, PRON_ESPACE>>>>,
                    <<<<Num2Words(2001), PRON_TERMINATOR, PRON_ESPACE>>>>}

\* The dictionary d with its keys longest first.
LongestFirst(d) == SortSeq(d, LAMBDA a, b : Len(a[1]) > Len(b[1]))

\* The set of the values of a list.
Range(l) == {l[i] : i \in DOMAIN l}

\* C4: the resolved sequence and the found pronunciations are those of the
\* longest-key-first order, whatever the insertion order of the dictionary.
C4_LongestFirst ==
    (mode = "resolve" /\ pc = "done") =>
        /\ out.out = ExprTransform(LongestFirst(expr), x).out
        /\ \A d \in Orderings(expr) :
              /\ ExprTransform(d, x).out = out.out
              /\ Range(ExprTransform(d, x).pron_found) = Range(out.pron_found)

\* The maximal digit runs and maximal letter runs of a token, in order,
\* characters of neither alphabet dropped.
SegRuns(tok) ==
    Pieces(tok, ClassRuns([i \in DOMAIN tok |->
                             IF tok[i] \in NUMBERS THEN "d"
                             ELSE IF tok[i] \in LETTERS THEN "l"
                             ELSE "s"]))

\* C5: a token with both a digit and a letter is replaced by its maximal
\* digit runs and letter runs, each once and in order; any other token is
\* emitted unchanged.
C5_Segments ==
    (mode = "segment" /\ pc = "done") =>
        out = Flatten([j \in DOMAIN x |->
                          IF NumTokMixed(x[j]) THEN SegRuns(x[j])
                          ELSE <<x[j]>>])

\* A token of digits, optionally with one "," or "." between digits.
IsNumeral(tok) ==
    \/ IntParses(tok)
    \/ \E i \in DOMAIN tok :
          /\ tok[i] \in {",", "."}
          /\ IntParses(SubSeq(tok, 1, i - 1))
          /\ IntParses(SubSeq(tok, i + 1, Len(tok)))

\* The spelled-out form of a numeral token.
Spelled(tok, rd) ==
    LET t == IF AllDigits(tok) THEN Num2Words(DigitsVal(tok))
             ELSE FloatToText(CommaToDot(tok))
    IN IF rd THEN DashToSpace(t) ELSE t

\* C6: the speller returns a sequence aligned with its input in which every
\* numeral token, decimal numerals included, is spelled out and every other
\* token is unchanged.
C6_Spelled ==
    (mode = "spell" /\ pc = "done") =>
        /\ Len(out) = Len(x)
        /\ \A i \in DOMAIN x :
              out[i] = IF IsNumeral(x[i]) THEN Spelled(x[i], remove_dash)
                       ELSE x[i]

\* C7: the batch has as many elements as documents at every statement of
\* encode, and the sequence returned for document i is encode's result for
\* document i alone.
C7_Batch ==
    mode = "encode" =>
        /\ Len(x) = Len(docs)
        /\ Len(x_cpy) = Len(r_dict) \/ pc \in {"fill", "done", "raised"}
        /\ Len(x_cpy) <= Len(docs)
        /\ pc \in {"fill", "done"} => Len(x_cpy) = Len(docs)
        /\ pc = "done" =>
              /\ Len(out) = Len(docs)
              /\ \A i \in DOMAIN docs : out[i] = EncodeDoc(docs[i])

\* C7 witness: encode has returned for a batch of two different documents
\* whose sequences differ.
C7_Witness ==
    /\ EncodeDone
    /\ Len(docs) = 2
    /\ docs[1] # docs[2]
    /\ out[1] # out[2]
    /\ out[1] # <<>> /\ out[2] # <<>>

\* The tokens of the value the abbreviation dictionary gives an input
\* token: of its expansion when it is a key, of itself otherwise.
AbbrValueTokens(d, tok) == StrSplit(DictGet(d, tok))

WholeMatchAt(ts, kt, j) ==
    /\ kt # <<>>
    /\ j + Len(kt) - 1 <= Len(ts)
    /\ \A m \in DOMAIN kt : ts[j + m - 1] = kt[m]

\* The positions of ts that lie in a contiguous run of whole tokens equal
\* to a key of ipa.
Covered(ts, ipa) ==
    {j \in DOMAIN ts :
        \E k \in DOMAIN ipa :
            \E st \in DOMAIN ts :
                /\ WholeMatchAt(ts, StrSplit(ipa[k][1]), st)
                /\ st <= j
                /\ j <= st + Len(StrSplit(ipa[k][1])) - 1}

\* Whether the list a is a subsequence of the list b.
RECURSIVE IsSubseq(_, _)
IsSubseq(a, b) ==
    IF a = <<>> THEN TRUE
    ELSE IF b = <<>> THEN FALSE
    ELSE IF Head(a) = Head(b) THEN IsSubseq(Tail(a), Tail(b))
    ELSE IsSubseq(a, Tail(b))

\* C10: the tokens outside every whole-token match of a key appear
\* unchanged and in order in the resolved sequence; with no whole-token
\* match nothing is replaced and nothing is found.
C10_WholeTokens ==
    (mode = "resolve" /\ pc = "done") =>
        LET keep == SortedSeq(DOMAIN x \ Covered(x, expr))
        IN /\ IsSubseq([k \in DOMAIN keep |-> x[keep[k]]], out.out)
           /\ Covered(x, expr) = {}
                 => out.out = x /\ out.pron_found = <<>>

===========================================================================
